---------------------------- MODULE Spec2Model ----------------------------
(***************************************************************************)
(* A model of the ivesna hybrid retriever (app/retrieval.py) together with *)
(* the chunk/document store it reads (app/db.py), the ingestion that fills *)
(* the store (app/ingest_lib.py) and the chunking it uses (app/utils.py).  *)
(*                                                                         *)
(* Specifications.                                                         *)
(*   Spec           retrieve() calls over a store filled page by page      *)
(*   SpecDamaged    the same, with a stored embedding that may get damaged *)
(*   SpecIngest     process_pages calls, the provider failing or not       *)
(*   SpecChunk      chunk_text, one loop iteration per step                *)
(*   SpecPrior, SpecPreselect, SpecBm25, SpecTokens                        *)
(*                  url_title_prior, the cosine preselection, bm25_scores  *)
(*                  and tokens, each called on its own                     *)
(*                                                                         *)
(* Representation.                                                         *)
(*   - A Python str is a sequence of characters; a character is a one      *)
(*     element TLA+ string.  A precomposed accented letter is written with *)
(*     its mark appended ("u'" is u-acute, "c^" is c-caron); the combining *)
(*     marks themselves are "'" (U+0301) and "^" (U+030C).                 *)
(*   - Floats are fixed point integers: cosine and BM25 in thousandths,    *)
(*     the prior in hundredths, the fused score in 1/100000.  Every        *)
(*     division truncates as \div does; math.log is tabulated (LnTab).     *)
(*   - A Python dict is a sequence of entries in insertion order.          *)
(***************************************************************************)
EXTENDS Integers, Sequences, FiniteSets, TLC

(***************************************************************************)
(* Bounds of the model.                                                    *)
(***************************************************************************)
MaxChunks == 3

MaxK == 2

\* The longest list cosine preselection is called on by itself, and the
\* largest cap it is given there (the cap of 300 scaled down to the lists).
MaxRows == 4

MaxLimit == 2

\* The longest chunk, in tokens, bm25_scores is called on by itself.
MaxTokens == 3

\* chunk_text called by itself: the largest max_tokens and overlap it is
\* given, and the windows the memory of the process holds.
MaxWindowTokens == 2

MaxOverlap == 2

MaxWindows == 6

\* The longest list of pages process_pages is called with.
MaxPages == 2

(***************************************************************************)
(* Program constants.                                                      *)
(***************************************************************************)
top_k == 6

PRESELECT_M == 300

(***************************************************************************)
(* Generic helpers.                                                        *)
(***************************************************************************)
Min(a, b) == IF a <= b THEN a ELSE b

Max(a, b) == IF a >= b THEN a ELSE b

RECURSIVE Flatten(_)
Flatten(ss) == IF ss = <<>> THEN <<>> ELSE Head(ss) \o Flatten(Tail(ss))

RECURSIVE SumSeq(_)
SumSeq(s) == IF s = <<>> THEN 0 ELSE Head(s) + SumSeq(Tail(s))

Take(s, n) == SubSeq(s, 1, Min(n, Len(s)))

\* Python's `sub in s` for strings.
Contains(s, sub) ==
    \E i \in 0..(Len(s) - Len(sub)) : SubSeq(s, i + 1, i + Len(sub)) = sub

\* Python's s.endswith(suf).
EndsWith(s, suf) ==
    /\ Len(s) >= Len(suf)
    /\ SubSeq(s, Len(s) - Len(suf) + 1, Len(s)) = suf

(***************************************************************************)
(* Characters: str.lower(), NFD decomposition, category Mn, str.isalnum(). *)
(***************************************************************************)
UpperChars ==
    <<"A", "B", "C", "D", "E", "F", "G", "H", "I", "J", "K", "L", "M",
      "N", "O", "P", "Q", "R", "S", "T", "U", "V", "W", "X", "Y", "Z",
      "A'", "E'", "I'", "U'", "Y'", "C^", "L^", "N^", "T^", "Z^">>

LowerChars ==
    <<"a", "b", "c", "d", "e", "f", "g", "h", "i", "j", "k", "l", "m",
      "n", "o", "p", "q", "r", "s", "t", "u", "v", "w", "x", "y", "z",
      "a'", "e'", "i'", "u'", "y'", "c^", "l^", "n^", "t^", "z^">>

Precomposed ==
    <<"a'", "e'", "i'", "u'", "y'", "c^", "l^", "n^", "t^", "z^",
      "A'", "E'", "I'", "U'", "Y'", "C^", "L^", "N^", "T^", "Z^">>

Decomposed ==
    << <<"a", "'">>, <<"e", "'">>, <<"i", "'">>, <<"u", "'">>, <<"y", "'">>,
       <<"c", "^">>, <<"l", "^">>, <<"n", "^">>, <<"t", "^">>, <<"z", "^">>,
       <<"A", "'">>, <<"E", "'">>, <<"I", "'">>, <<"U", "'">>, <<"Y", "'">>,
       <<"C", "^">>, <<"L", "^">>, <<"N", "^">>, <<"T", "^">>, <<"Z", "^">> >>

Digits == {"0", "1", "2", "3", "4", "5", "6", "7", "8", "9"}

\* str.lower() on one character.
Lower(c) ==
    IF \E i \in 1..Len(UpperChars) : UpperChars[i] = c
    THEN LowerChars[CHOOSE i \in 1..Len(UpperChars) : UpperChars[i] = c]
    ELSE c

\* unicodedata.normalize("NFD", c) on one character.
NFD(c) ==
    IF \E i \in 1..Len(Precomposed) : Precomposed[i] = c
    THEN Decomposed[CHOOSE i \in 1..Len(Precomposed) : Precomposed[i] = c]
    ELSE <<c>>

\* unicodedata.category(c) = "Mn".
IsMn(c) == c \in {"'", "^"}

\* str.isalnum() on one character.
IsAlnum(c) ==
    \/ c \in Digits
    \/ \E i \in 1..Len(LowerChars) : LowerChars[i] = c \/ UpperChars[i] = c

(***************************************************************************)
(* Tokenization & helpers (retrieval.py lines 18-46).                      *)
(***************************************************************************)
SK_STOP ==
    { <<"a">>, <<"a", "j">>, <<"a", "l", "e", "b", "o">>, <<"a", "n", "i">>,
      <<"n", "a">>, <<"v">>, <<"v", "o">>, <<"d", "o">>, <<"z">>, <<"z", "a">>,
      <<"o", "d">>, <<"o">>, <<"u">>, <<"s">>, <<"s", "o">>, <<"j", "e">>,
      <<"s", "u'">>, <<"s", "o", "m">>, <<"s", "i">>, <<"s", "a">>, <<"b", "y">>,
      <<"b", "y", "t^">>, <<"c^", "o">>, <<"k", "t", "o">>,
      <<"k", "t", "o", "r", "y'">>, <<"k", "t", "o", "r", "a'">>,
      <<"k", "t", "o", "r", "e'">>, <<"a", "k">>, <<"a", "k", "e'">>,
      <<"a", "k", "o">>, <<"z^", "e">>, <<"p", "r", "e">>, <<"p", "r", "i">>,
      <<"n", "a", "d">>, <<"p", "o", "d">>, <<"p", "o">>, <<"u", "z^">>,
      <<"l", "e", "n">>, <<"c^", "i">>, <<"t", "i", "e", "z^">>,
      <<"s", "l", "o", "v", "e", "n", "s", "k", "a'">>,
      <<"s", "l", "o", "v", "e", "n", "s", "k", "a">>,
      <<"s", "p", "o", "r", "i", "t", "e", "l^", "n^", "a">>,
      <<"s", "p", "o", "r", "i", "t", "e", "l", "n", "a">>, <<"s", "l", "s", "p">>,
      <<"s", "k">> }

BUSINESS_HINTS ==
    { <<"b", "i", "z", "n", "i", "s">>, <<"f", "i", "r", "m", "a">>,
      <<"f", "i", "r", "e", "m", "n", "y">>, <<"f", "i", "r", "e", "m", "n", "y'">>,
      <<"p", "o", "d", "n", "i", "k">>,
      <<"p", "o", "d", "n", "i", "k", "a", "n", "i", "e">>,
      <<"z^", "i", "v", "n", "o", "s", "t">>, <<"z", "i", "v", "n", "o", "s", "t">>,
      <<"z^", "i", "v", "n", "o", "s", "t", "n", "i'", "k">>,
      <<"z", "i", "v", "n", "o", "s", "t", "n", "i", "k">> }

strip_acc(s) ==
    SelectSeq(Flatten([i \in 1..Len(s) |-> NFD(Lower(s[i]))]),
              LAMBDA c : ~IsMn(c))

\* The scanning loop of tokens(): out and cur after the characters from i on.
RECURSIVE TokScan(_, _, _, _)
TokScan(s, i, out, cur) ==
    IF i > Len(s)
    THEN IF cur # <<>> THEN Append(out, cur) ELSE out
    ELSE IF IsAlnum(s[i])
         THEN TokScan(s, i + 1, out, Append(cur, s[i]))
         ELSE IF cur # <<>>
              THEN TokScan(s, i + 1, Append(out, cur), <<>>)
              ELSE TokScan(s, i + 1, out, cur)

tokens(s) ==
    SelectSeq(TokScan(strip_acc(s), 1, <<>>, <<>>),
              LAMBDA t : Len(t) >= 3 /\ t \notin SK_STOP)

Dot(a, b) == SumSeq([i \in 1..Len(a) |-> a[i] * b[i]])

\* floor(sqrt(x)) by bisection: lo*lo <= x < hi*hi throughout
\* (46341 squared is past every x a 32-bit integer holds).
RECURSIVE ISqrtIter(_, _, _)
ISqrtIter(x, lo, hi) ==
    IF hi - lo <= 1 THEN lo
    ELSE LET mid == (lo + hi) \div 2
         IN  IF mid * mid <= x THEN ISqrtIter(x, mid, hi)
                               ELSE ISqrtIter(x, lo, mid)

ISqrt(x) == ISqrtIter(x, 0, Min(x + 1, 46341))

\* cosine(a, b) in thousandths; 0 when either norm is 0.
cosine(a, b) ==
    LET denom == ISqrt(Dot(a, a) * Dot(b, b) * 1000000)
    IN  IF denom = 0 THEN 0 ELSE (Dot(a, b) * 1000000) \div denom

(***************************************************************************)
(* The JSON text of an embedding (db.py: Chunk.embedding is the "JSON      *)
(* encoded list[float]").  json.dumps writes "[1.0, 0.0]"; json.loads      *)
(* either yields the list or raises.  Components are the whole numbers     *)
(* 0.0 .. 9.0.                                                             *)
(***************************************************************************)
DigitChars == <<"0", "1", "2", "3", "4", "5", "6", "7", "8", "9">>

RECURSIVE json_dumps_items(_)
json_dumps_items(v) ==
    IF v = <<>> THEN <<>>
    ELSE <<DigitChars[Head(v) + 1], ".", "0">>
         \o (IF Tail(v) = <<>> THEN <<>> ELSE <<",", " ">>)
         \o json_dumps_items(Tail(v))

json_dumps(v) == <<"[">> \o json_dumps_items(v) \o <<"]">>

DigitVal(c) == (CHOOSE i \in 1..Len(DigitChars) : DigitChars[i] = c) - 1

\* Parses the items from position i on; acc holds the numbers read so far.
RECURSIVE json_loads_items(_, _, _)
json_loads_items(s, i, acc) ==
    IF /\ i + 3 <= Len(s)
       /\ s[i] \in Digits
       /\ s[i + 1] = "."
       /\ s[i + 2] = "0"
    THEN LET acc2 == Append(acc, DigitVal(s[i]))
         IN  IF s[i + 3] = "]" /\ i + 3 = Len(s)
             THEN [ok |-> TRUE, val |-> acc2]
             ELSE IF /\ i + 4 <= Len(s)
                     /\ s[i + 3] = ","
                     /\ s[i + 4] = " "
                  THEN json_loads_items(s, i + 5, acc2)
                  ELSE [ok |-> FALSE, val |-> <<>>]
    ELSE [ok |-> FALSE, val |-> <<>>]

\* json.loads(s): ok = FALSE stands for the JSONDecodeError it raises.
json_loads(s) ==
    IF s = <<"[", "]">> THEN [ok |-> TRUE, val |-> <<>>]
    ELSE IF Len(s) >= 1 /\ s[1] = "["
         THEN json_loads_items(s, 2, <<>>)
         ELSE [ok |-> FALSE, val |-> <<>>]

(***************************************************************************)
(* BM25 (lite) over chunks (retrieval.py lines 50-79), k1 = 1.2, b = 0.75. *)
(***************************************************************************)
\* round(1000 * ln n) for n = 1 .. 24.
LnTab ==
    <<0, 693, 1099, 1386, 1609, 1792, 1946, 2079, 2197, 2303, 2398, 2485,
      2565, 2639, 2708, 2773, 2833, 2890, 2944, 2996, 3045, 3091, 3135, 3178>>

\* Counter(toks)[t].
CountOf(t, toks) == Cardinality({i \in 1..Len(toks) : toks[i] = t})

\* df[t]: the number of chunks holding t.
DocFreq(t, chunk_texts) ==
    Cardinality({i \in 1..Len(chunk_texts) : CountOf(t, chunk_texts[i]) > 0})

\* idf[t] = log((N - n_t + 0.5) / (n_t + 0.5) + 1.0) = log((2N + 2) / (2 n_t + 1)).
Idf(t, chunk_texts) ==
    LET N   == Len(chunk_texts)
        n_t == DocFreq(t, chunk_texts)
    IN  LnTab[2 * N + 2] - LnTab[2 * n_t + 1]

\* Faulty variant of Bm25Term: the ratio is den / num.
Bm25Term_Inverted(qt, toks, chunk_texts) ==
    LET N  == Len(chunk_texts)
        S  == SumSeq([i \in 1..N |-> Len(chunk_texts[i])])
        Sm == Max(S, N)
        tf == CountOf(qt, toks)
        dl == Len(toks)
    IN  IF tf = 0 THEN 0
        ELSE (Idf(qt, chunk_texts) * (10 * tf * Sm + 3 * Sm + 9 * dl * N))
                 \div (22 * tf * Sm)

\* One query token's addend of a chunk's score.  With S the total length,
\* avgdl = S / N and max(1.0, avgdl) = max(S, N) / N, so that
\* num / den = 22 tf Sm / (10 tf Sm + 3 Sm + 9 dl N) with Sm = max(S, N).
Bm25Term(qt, toks, chunk_texts) ==
    LET N  == Len(chunk_texts)
        S  == SumSeq([i \in 1..N |-> Len(chunk_texts[i])])
        Sm == Max(S, N)
        tf == CountOf(qt, toks)
        dl == Len(toks)
    IN  IF tf = 0 THEN 0
        ELSE (Idf(qt, chunk_texts) * 22 * tf * Sm)
                 \div (10 * tf * Sm + 3 * Sm + 9 * dl * N)

\* Faulty variant of bm25_scores: the early return yields 1.0 per chunk.
bm25_scores_OnesWhenEmpty(q_toks, chunk_texts) ==
    IF chunk_texts = <<>> \/ q_toks = <<>>
    THEN [i \in 1..Len(chunk_texts) |-> 1000]
    ELSE [i \in 1..Len(chunk_texts) |->
            SumSeq([j \in 1..Len(q_toks) |->
                       Bm25Term(q_toks[j], chunk_texts[i], chunk_texts)])]

bm25_scores(q_toks, chunk_texts) ==
    IF chunk_texts = <<>> \/ q_toks = <<>>
    THEN [i \in 1..Len(chunk_texts) |-> 0]
    ELSE [i \in 1..Len(chunk_texts) |->
            SumSeq([j \in 1..Len(q_toks) |->
                       Bm25Term(q_toks[j], chunk_texts[i], chunk_texts)])]

(***************************************************************************)
(* Heuristic URL/title priors (retrieval.py lines 83-113), in hundredths.  *)
(***************************************************************************)
S_uct == <<"u", "c", "t">>

S_vsetky_ucty ==
    <<"/", "l", "u", "d", "i", "a", "/", "v", "s", "e", "t", "k", "y", "-",
      "u", "c", "t", "y">>

S_ludia_ucty == <<"/", "l", "u", "d", "i", "a", "/", "u", "c", "t", "y">>

S_ludia == <<"/", "l", "u", "d", "i", "a", "/">>

S_content_dam == <<"/", "c", "o", "n", "t", "e", "n", "t", "/", "d", "a", "m", "/">>

S_pdf == <<".", "p", "d", "f">>

S_zmluvne ==
    <<"/", "z", "m", "l", "u", "v", "n", "e", "-", "p", "o", "d", "m", "i",
      "e", "n", "k", "y">>

S_archiv == <<"/", "a", "r", "c", "h", "i", "v">>

S_landing ==
    <<"/", "l", "a", "n", "d", "i", "n", "g", "-", "p", "a", "g", "e", "s", "/">>

S_biznis == <<"/", "b", "i", "z", "n", "i", "s", "/">>

\* The prior before the final clamp.
PriorSum(q_toks, url, title, is_business_query) ==
    LET u == strip_acc(url)
        t == strip_acc(title)
    IN  SumSeq([i \in 1..Len(q_toks) |->
                  (IF Contains(u, q_toks[i]) THEN 20 ELSE 0)
                  + (IF Contains(t, q_toks[i]) THEN 15 ELSE 0)])
        + (IF Contains(u, S_uct) \/ Contains(t, S_uct) THEN 35 ELSE 0)
        + (IF Contains(u, S_vsetky_ucty) \/ Contains(u, S_ludia_ucty)
           THEN 40 ELSE 0)
        + (IF Contains(u, S_ludia) THEN 15 ELSE 0)
        - (IF Contains(u, S_content_dam) \/ EndsWith(u, S_pdf) THEN 40 ELSE 0)
        - (IF \/ Contains(u, S_zmluvne)
              \/ Contains(u, S_archiv)
              \/ Contains(u, S_landing)
           THEN 25 ELSE 0)
        + (IF Contains(u, S_biznis)
           THEN (IF is_business_query THEN 5 ELSE -20)
           ELSE 0)

\* Faulty variant of ClampPrior: the upper clamp is missing.
ClampPrior_NoUpper(p) == Max(p, -60)

\* return max(min(prior, 0.9), -0.6)
ClampPrior(p) == Max(Min(p, 90), -60)

url_title_prior(q_toks, url, title, is_business_query) ==
    ClampPrior(PriorSum(q_toks, url, title, is_business_query))

(***************************************************************************)
(* The pure stages of retrieve() (retrieval.py lines 126-191).             *)
(*   document row : [id, tenant, url, title]                               *)
(*   chunk row    : [id, document_id, tenant, ordinal, text, embedding]    *)
(*   scored tuple : [cid, text, doc_id, score]                             *)
(***************************************************************************)
\* k = k or settings.top_k  (k = 0 also stands for k = None).
EffectiveK(k) == IF k = 0 THEN top_k ELSE k

\* Faulty variant of SelectRows: the where clause is missing.
SelectRows_AnyTenant(chunkTable, tenant) == chunkTable

\* select(...).where(Chunk.tenant == tenant), in row order.
SelectRows(chunkTable, tenant) ==
    SelectSeq(chunkTable, LAMBDA r : r.tenant = tenant)

\* Faulty variant of NoRows: the early return is missing.
NoRows_Never(rws) == FALSE

\* if not rows
NoRows(rws) == rws = <<>>

\* The body of the cosine loop can be run for this row: json.loads yields a
\* list and np.dot gets two vectors of one shape.
RowScorable(r, qv) ==
    LET p == json_loads(r.embedding)
    IN  p.ok /\ Len(p.val) = Len(qv)

\* cos_scored: one tuple per row, in row order.
CosScored(rws, qv) ==
    [i \in 1..Len(rws) |->
        [cid    |-> rws[i].id,
         text   |-> rws[i].text,
         doc_id |-> rws[i].document_id,
         score  |-> cosine(qv, json_loads(rws[i].embedding).val)]]

\* Faulty variant of InsertDesc: equal scores come out in reverse order.
RECURSIVE InsertDesc_Unstable(_, _)
InsertDesc_Unstable(sorted, x) ==
    IF sorted = <<>> THEN <<x>>
    ELSE IF Head(sorted).score > x.score
         THEN <<Head(sorted)>> \o InsertDesc_Unstable(Tail(sorted), x)
         ELSE <<x>> \o sorted

\* list.sort(key = score, reverse = True): descending and stable.
RECURSIVE InsertDesc(_, _)
InsertDesc(sorted, x) ==
    IF sorted = <<>> THEN <<x>>
    ELSE IF Head(sorted).score >= x.score
         THEN <<Head(sorted)>> \o InsertDesc(Tail(sorted), x)
         ELSE <<x>> \o sorted

RECURSIVE SortDesc(_)
SortDesc(s) ==
    IF s = <<>> THEN <<>>
    ELSE InsertDesc(SortDesc(SubSeq(s, 1, Len(s) - 1)), s[Len(s)])

\* Faulty variant of PreselectTop: the sort is missing, the first rows are kept.
PreselectTop_Unsorted(cos_scored, limit) ==
    Take(cos_scored, Min(limit, Len(cos_scored)))

\* Lines 145-147 with the cap as a parameter (retrieve() passes 300):
\* M = min(limit, len(cos_scored)); sort descending; prelim = cos_scored[:M].
PreselectTop(cos_scored, limit) ==
    Take(SortDesc(cos_scored), Min(limit, Len(cos_scored)))

\* M = min(300, len(cos_scored)); prelim = sorted cos_scored[:M].
Preselect(cos_scored) == PreselectTop(cos_scored, PRESELECT_M)

PrelimTextTokens(pre) == [i \in 1..Len(pre) |-> tokens(pre[i].text)]

\* select(Document).where(Document.id.in_(doc_ids)): no tenant filter.
LoadDocMap(docTable, pre) ==
    SelectSeq(docTable,
              LAMBDA d : \E i \in 1..Len(pre) : pre[i].doc_id = d.id)

\* What getattr(None, "url", "") and getattr(None, "title", "") read.
NoDoc == [id |-> 0, tenant |-> "", url |-> <<>>, title |-> <<>>]

\* doc_map.get(doc_id)
DocGet(dmap, doc_id) ==
    IF \E i \in 1..Len(dmap) : dmap[i].id = doc_id
    THEN dmap[CHOOSE i \in 1..Len(dmap) : dmap[i].id = doc_id]
    ELSE NoDoc

\* Faulty variant of Fuse: the prior is left out of the sum.
Fuse_NoPrior(cos, bm, prior) == 60 * cos + 25 * bm

\* final = 0.60 * cos + 0.25 * bm25[idx] + 0.15 * prior, in 1/100000.
Fuse(cos, bm, prior) == 60 * cos + 25 * bm + 150 * prior

CombinedPerChunk(pre, bm, dmap, qtoks, isbiz) ==
    [idx \in 1..Len(pre) |->
        LET d == DocGet(dmap, pre[idx].doc_id)
        IN  [cid    |-> pre[idx].cid,
             text   |-> pre[idx].text,
             doc_id |-> pre[idx].doc_id,
             score  |-> Fuse(pre[idx].score, bm[idx],
                             url_title_prior(qtoks, d.url, d.title, isbiz))]]

\* Faulty variant of BestPerDocStep: on equal scores the later chunk wins.
BestPerDocStep_LastOfEqual(best, e) ==
    IF \E i \in 1..Len(best) : best[i].doc_id = e.doc_id
    THEN LET i == CHOOSE j \in 1..Len(best) : best[j].doc_id = e.doc_id
         IN  IF e.score >= best[i].score THEN [best EXCEPT ![i] = e] ELSE best
    ELSE Append(best, e)

\* One iteration of the best-chunk-per-document loop.
BestPerDocStep(best, e) ==
    IF \E i \in 1..Len(best) : best[i].doc_id = e.doc_id
    THEN LET i == CHOOSE j \in 1..Len(best) : best[j].doc_id = e.doc_id
         IN  IF e.score > best[i].score THEN [best EXCEPT ![i] = e] ELSE best
    ELSE Append(best, e)

\* best_per_doc.values() after the loop over combined_per_chunk.
RECURSIVE BestPerDoc(_)
BestPerDoc(combined) ==
    IF combined = <<>> THEN <<>>
    ELSE BestPerDocStep(BestPerDoc(SubSeq(combined, 1, Len(combined) - 1)),
                        combined[Len(combined)])

\* Faulty variant of ByUrlStep: no dedup, every document gets an entry.
ByUrlStep_NoDedup(byurl, e, dmap) ==
    Append(byurl, [url |-> DocGet(dmap, e.doc_id).url, val |-> e])

\* Faulty variant of ByUrlStep: the document met last takes the URL's entry.
ByUrlStep_LastWins(byurl, e, dmap) ==
    LET url == DocGet(dmap, e.doc_id).url
    IN  IF \E i \in 1..Len(byurl) : byurl[i].url = url
        THEN LET i == CHOOSE j \in 1..Len(byurl) : byurl[j].url = url
             IN  [byurl EXCEPT ![i] = [url |-> url, val |-> e]]
        ELSE Append(byurl, [url |-> url, val |-> e])

\* One iteration of the dedup-by-URL loop; an entry is [url, val].
ByUrlStep(byurl, e, dmap) ==
    LET url == DocGet(dmap, e.doc_id).url
    IN  IF \E i \in 1..Len(byurl) : byurl[i].url = url
        THEN LET i == CHOOSE j \in 1..Len(byurl) : byurl[j].url = url
             IN  IF e.score > byurl[i].val.score
                 THEN [byurl EXCEPT ![i] = [url |-> url, val |-> e]]
                 ELSE byurl
        ELSE Append(byurl, [url |-> url, val |-> e])

\* by_url after the loop over best_per_doc.values().
RECURSIVE ByUrl(_, _)
ByUrl(best, dmap) ==
    IF best = <<>> THEN <<>>
    ELSE ByUrlStep(ByUrl(SubSeq(best, 1, Len(best) - 1), dmap),
                   best[Len(best)], dmap)

\* Faulty variant of Values: results without a positive score are dropped.
Values_PositiveOnly(byurl) ==
    SelectSeq([i \in 1..Len(byurl) |-> byurl[i].val],
              LAMBDA e : e.score > 0)

\* list(by_url.values())
Values(byurl) == [i \in 1..Len(byurl) |-> byurl[i].val]

\* Faulty variant of Ranked: the list is not cut to k.
Ranked_NoCut(byurl, k) == SortDesc(Values(byurl))

\* ranked.sort(...); return ranked[:k]
Ranked(byurl, k) == Take(SortDesc(Values(byurl)), k)

(***************************************************************************)
(* Chunking (utils.py).  tokenize is re.findall(r"\w+|[^\w\s]"): runs of   *)
(* word characters, and every other character that is no white space, one *)
(* token each.  chunk_text runs in steps, one per evaluation of the loop   *)
(* condition; its frame is [pc, tokens, i, chunks].                        *)
(***************************************************************************)
IsSpace(c) == c \in {" ", "\t", "\n"}

IsWordChar(c) == IsAlnum(c) \/ c = "_"

RECURSIVE TokenizeScan(_, _, _, _)
TokenizeScan(s, i, out, cur) ==
    IF i > Len(s)
    THEN IF cur # <<>> THEN Append(out, cur) ELSE out
    ELSE IF IsWordChar(s[i])
         THEN TokenizeScan(s, i + 1, out, Append(cur, s[i]))
         ELSE LET flushed == IF cur # <<>> THEN Append(out, cur) ELSE out
              IN  IF IsSpace(s[i])
                  THEN TokenizeScan(s, i + 1, flushed, <<>>)
                  ELSE TokenizeScan(s, i + 1, Append(flushed, <<s[i]>>), <<>>)

tokenize(txt) == TokenizeScan(txt, 1, <<>>, <<>>)

\* Python's s[a:b]: a negative index counts from the end, both are clipped.
PySlice(s, a, b) ==
    LET lo == IF a < 0 THEN Max(Len(s) + a, 0) ELSE Min(a, Len(s))
        hi == IF b < 0 THEN Max(Len(s) + b, 0) ELSE Min(b, Len(s))
    IN  SubSeq(s, lo + 1, hi)

\* " ".join(window)
RECURSIVE Join(_)
Join(window) ==
    IF window = <<>> THEN <<>>
    ELSE IF Len(window) = 1 THEN Head(window)
         ELSE Head(window) \o <<" ">> \o Join(Tail(window))

\* Lines 10-12: the locals before the loop.
ChunkTextBegin(text) ==
    [pc |-> "loop", tokens |-> tokenize(text), i |-> 0, chunks |-> <<>>]

\* Lines 13-19: the loop condition and, when it holds, one run of the body.
ChunkTextStep(f, max_tokens, overlap) ==
    IF ~(f.i < Len(f.tokens))
    THEN [f EXCEPT !.pc = "done"]
    ELSE LET window == PySlice(f.tokens, f.i, f.i + max_tokens)
             cs     == Append(f.chunks, Join(window))
         IN  IF f.i + max_tokens >= Len(f.tokens)
             THEN [f EXCEPT !.chunks = cs, !.pc = "done"]
             ELSE [f EXCEPT !.chunks = cs, !.i = f.i + max_tokens - overlap]

RECURSIVE ChunkTextRun(_, _, _)
ChunkTextRun(f, max_tokens, overlap) ==
    IF f.pc = "done" THEN f.chunks
    ELSE ChunkTextRun(ChunkTextStep(f, max_tokens, overlap), max_tokens, overlap)

\* chunk_text(text, max_tokens, overlap), for the pairs it returns on.
chunk_text(text, max_tokens, overlap) ==
    ChunkTextRun(ChunkTextBegin(text), max_tokens, overlap)

(***************************************************************************)
(* The inputs the model draws from.                                        *)
(***************************************************************************)
Tenants == {"slsp", "other"}

URL_HUB ==
    <<"s", "l", "s", "p", ".", "s", "k", "/", "l", "u", "d", "i", "a", "/",
      "u", "c", "t", "y">>

URL_HUB2 ==
    <<"s", "l", "s", "p", ".", "s", "k", "/", "l", "u", "d", "i", "a", "/",
      "v", "s", "e", "t", "k", "y", "-", "u", "c", "t", "y">>

URL_PDF ==
    <<"s", "l", "s", "p", ".", "s", "k", "/", "c", "o", "n", "t", "e", "n",
      "t", "/", "d", "a", "m", "/", "u", "c", "t", "y", ".", "p", "d", "f">>

TITLE_UCTY == <<"U'", "c^", "t", "y">>

TEXT_UCTY == <<"u", "c", "t", "y", " ", "u", "c", "t", "y">>

TEXT_FIRMA == <<"f", "i", "r", "m", "a", " ", "a", " ", "u", "c", "t", "y">>

\* A chunk window together with the vector the provider returned for it.
W_UCTY == [text |-> TEXT_UCTY, emb |-> <<1, 0>>]

W_FIRMA == [text |-> TEXT_FIRMA, emb |-> <<0, 1>>]

\* The pages ingestion is given: tenant, url, title and the windows of the
\* page's text.  A page may be stored twice (duplicate ingestion), a URL may
\* be stored again with another text, and two tenants may hold one URL.
Pages ==
    { [tenant |-> "slsp",  url |-> URL_HUB,  title |-> TITLE_UCTY,
       windows |-> <<W_UCTY>>],
      [tenant |-> "slsp",  url |-> URL_HUB,  title |-> TITLE_UCTY,
       windows |-> <<W_FIRMA, W_UCTY>>],
      [tenant |-> "slsp",  url |-> URL_HUB,  title |-> TITLE_UCTY,
       windows |-> <<W_UCTY, W_UCTY>>],
      [tenant |-> "slsp",  url |-> URL_HUB2, title |-> TITLE_UCTY,
       windows |-> <<W_UCTY>>],
      [tenant |-> "slsp",  url |-> URL_HUB2, title |-> TITLE_UCTY,
       windows |-> <<W_UCTY, W_FIRMA>>],
      [tenant |-> "slsp",  url |-> URL_PDF,  title |-> <<>>,
       windows |-> <<W_FIRMA>>],
      [tenant |-> "other", url |-> URL_HUB,  title |-> TITLE_UCTY,
       windows |-> <<W_UCTY>>] }

QUERY_UCTY == <<"U'", "c^", "t", "y", " ", "f", "i", "r", "m", "a">>

QUERY_STOP == <<"a", " ", "s", "k">>

Queries == {QUERY_UCTY, QUERY_STOP}

\* The vectors the provider may return for a query.
QueryVectors == {<<1, 0>>, <<1, 1>>}

(***************************************************************************)
(* State.                                                                  *)
(***************************************************************************)
VARIABLES
    documents,        \* the documents table, in id order
    chunks,           \* the chunks table, in id order
    pc,               \* where the current retrieve() call stands
    q,                \* its arguments: [tenant, query, k]
    q_vec,            \* the query vector
    q_toks,           \* tokens(query)
    is_business_query,
    rows,             \* the chunk rows loaded for the tenant
    prelim,           \* the preselected tuples
    bm25,             \* their BM25 scores
    doc_map,          \* the documents loaded for the priors
    combined_per_chunk,
    best_per_doc,     \* values of the dict, in insertion order
    by_url,           \* entries [url, val] of the dict, in insertion order
    result,           \* the returned list
    returned,         \* retrieve() has returned
    raised,           \* the exception that left retrieve(), or "none"
    fault,            \* the collaborator that failed under the call, or "none"
    embed_calls,      \* embed_texts calls made by the current call
    store_reads,      \* db.execute calls made by the current call
    fn_args,          \* the arguments of a function called on its own
    fn_ret,           \* and what it returned
    fn_frame          \* its locals while it runs, when it runs in steps

storeVars == <<documents, chunks>>

\* What the stages of a call compute.
stageVars ==
    <<q_vec, q_toks, is_business_query, rows, prelim, bm25, doc_map,
      combined_per_chunk, best_per_doc, by_url, result>>

\* How a call ended and what it called.
outcomeVars == <<returned, raised, fault, embed_calls, store_reads>>

callVars == <<pc, q, stageVars, outcomeVars>>

fnVars == <<fn_args, fn_ret, fn_frame>>

vars == <<storeVars, callVars, fnVars>>

NoCall == [tenant |-> "", query |-> <<>>, k |-> 0]

\* No retrieve() call is in progress.
CallIdle ==
    /\ pc = "idle"
    /\ q = NoCall
    /\ q_vec = <<>>
    /\ q_toks = <<>>
    /\ is_business_query = FALSE
    /\ rows = <<>>
    /\ prelim = <<>>
    /\ bm25 = <<>>
    /\ doc_map = <<>>
    /\ combined_per_chunk = <<>>
    /\ best_per_doc = <<>>
    /\ by_url = <<>>
    /\ result = <<>>
    /\ returned = FALSE
    /\ raised = "none"
    /\ fault = "none"
    /\ embed_calls = 0
    /\ store_reads = 0

\* init_db(): empty tables.
Init ==
    /\ documents = <<>>
    /\ chunks = <<>>
    /\ CallIdle
    /\ fn_args = <<>>
    /\ fn_ret = <<>>
    /\ fn_frame = <<>>

(***************************************************************************)
(* Ingestion: the commit of one page (ingest_lib.py lines 17 and 28-33).   *)
(* The windows chunk_text produced and the vectors embed_texts returned    *)
(* are the inputs.                                                         *)
(***************************************************************************)
\* title = page.get("title") or page.get("url") or ""
PageTitle(page) == IF page.title # <<>> THEN page.title ELSE page.url

\* db.add(doc); db.flush(): the documents table with the page's document.
DocumentsAfter(page) ==
    Append(documents,
           [id     |-> Len(documents) + 1,
            tenant |-> page.tenant,
            url    |-> page.url,
            title  |-> PageTitle(page)])

\* Faulty variant of ChunksAfter: the ordinals count from 1.
ChunksAfter_OrdinalFromOne(page) ==
    chunks \o
        [i \in 1..Len(page.windows) |->
            [id          |-> Len(chunks) + i,
             document_id |-> Len(documents) + 1,
             tenant      |-> page.tenant,
             ordinal     |-> i,
             text        |-> page.windows[i].text,
             embedding   |-> json_dumps(page.windows[i].emb)]]

\* The loop over enumerate(zip(chunks, embeddings)): the chunks table with
\* the page's chunks.
ChunksAfter(page) ==
    chunks \o
        [i \in 1..Len(page.windows) |->
            [id          |-> Len(chunks) + i,
             document_id |-> Len(documents) + 1,
             tenant      |-> page.tenant,
             ordinal     |-> i - 1,
             text        |-> page.windows[i].text,
             embedding   |-> json_dumps(page.windows[i].emb)]]

StorePage(page) ==
    /\ pc = "idle"
    /\ Len(chunks) + Len(page.windows) <= MaxChunks
    /\ documents' = DocumentsAfter(page)
    /\ chunks' = ChunksAfter(page)
    /\ UNCHANGED <<callVars, fnVars>>

\* A stored embedding loses its tail outside the program (a damaged row):
\* the text column no longer holds JSON.  At most one row is damaged.
CorruptRow(i) ==
    /\ pc = "idle"
    /\ \A j \in 1..Len(chunks) : json_loads(chunks[j].embedding).ok
    /\ chunks' = [chunks EXCEPT
                    ![i].embedding = SubSeq(@, 1, Len(@) - 1)]
    /\ UNCHANGED <<documents, callVars, fnVars>>

(***************************************************************************)
(* retrieve(db, tenant, query, k), one action per stretch between the      *)
(* calls that can fail (embed_texts, the two db.execute).                  *)
(***************************************************************************)
Call(tenant, query, k) ==
    /\ pc = "idle"
    /\ pc' = "embed"
    /\ q' = [tenant |-> tenant, query |-> query, k |-> k]
    /\ UNCHANGED <<storeVars, stageVars, outcomeVars, fnVars>>

\* Lines 127-129: the provider answers with v.
EmbedOk(v) ==
    /\ pc = "embed"
    /\ embed_calls' = embed_calls + 1
    /\ q_vec' = v
    /\ q_toks' = tokens(q.query)
    /\ is_business_query' =
          (\E i \in 1..Len(tokens(q.query)) :
               tokens(q.query)[i] \in BUSINESS_HINTS)
    /\ pc' = "load_rows"
    /\ UNCHANGED <<storeVars, q, rows, prelim, bm25, doc_map,
                   combined_per_chunk, best_per_doc, by_url, result,
                   returned, raised, fault, store_reads, fnVars>>

\* Faulty variant of EmbedFail: the exception is caught and the call goes on with a
\* zero vector.
EmbedFail_Swallowed ==
    /\ pc = "embed"
    /\ embed_calls' = embed_calls + 1
    /\ fault' = "provider"
    /\ q_vec' = <<0, 0>>
    /\ q_toks' = tokens(q.query)
    /\ is_business_query' =
          (\E i \in 1..Len(tokens(q.query)) :
               tokens(q.query)[i] \in BUSINESS_HINTS)
    /\ pc' = "load_rows"
    /\ UNCHANGED <<storeVars, q, rows, prelim, bm25, doc_map,
                   combined_per_chunk, best_per_doc, by_url, result,
                   returned, raised, store_reads, fnVars>>

\* Line 127: embed_texts raises; nothing in retrieve() catches it.
EmbedFail ==
    /\ pc = "embed"
    /\ embed_calls' = embed_calls + 1
    /\ fault' = "provider"
    /\ raised' = "ProviderError"
    /\ pc' = "raised"
    /\ UNCHANGED <<storeVars, q, stageVars, returned, store_reads, fnVars>>

\* Lines 132-151: the rows arrive; empty rows return [], a row that cannot
\* be scored raises out of the loop, otherwise preselection and BM25 run.
LoadRowsOk ==
    /\ pc = "load_rows"
    /\ store_reads' = store_reads + 1
    /\ LET rws == SelectRows(chunks, q.tenant)
       IN  /\ rows' = rws
           /\ IF NoRows(rws)
              THEN /\ returned' = TRUE
                   /\ pc' = "done"
                   /\ UNCHANGED <<prelim, bm25, raised>>
              ELSE IF \E i \in 1..Len(rws) : ~RowScorable(rws[i], q_vec)
                   THEN /\ raised' = "DataError"
                        /\ pc' = "raised"
                        /\ UNCHANGED <<prelim, bm25, returned>>
                   ELSE /\ LET pre == Preselect(CosScored(rws, q_vec))
                           IN  /\ prelim' = pre
                               /\ bm25' = bm25_scores(q_toks,
                                                      PrelimTextTokens(pre))
                        /\ pc' = "load_docs"
                        /\ UNCHANGED <<returned, raised>>
    /\ UNCHANGED <<storeVars, q, q_vec, q_toks, is_business_query, doc_map,
                   combined_per_chunk, best_per_doc, by_url, result, fault,
                   embed_calls, fnVars>>

\* Line 132: the chunk query raises.
LoadRowsFail ==
    /\ pc = "load_rows"
    /\ store_reads' = store_reads + 1
    /\ fault' = "store"
    /\ raised' = "StoreError"
    /\ pc' = "raised"
    /\ UNCHANGED <<storeVars, q, stageVars, returned, embed_calls, fnVars>>

\* Lines 154-191: the documents arrive; fuse, aggregate, dedup, rank, cut.
LoadDocsOk ==
    /\ pc = "load_docs"
    /\ store_reads' = store_reads + 1
    /\ LET dmap     == LoadDocMap(documents, prelim)
           combined == CombinedPerChunk(prelim, bm25, dmap, q_toks,
                                        is_business_query)
           best     == BestPerDoc(combined)
           byurl    == ByUrl(best, dmap)
       IN  /\ doc_map' = dmap
           /\ combined_per_chunk' = combined
           /\ best_per_doc' = best
           /\ by_url' = byurl
           /\ result' = Ranked(byurl, EffectiveK(q.k))
    /\ returned' = TRUE
    /\ pc' = "done"
    /\ UNCHANGED <<storeVars, q, q_vec, q_toks, is_business_query, rows,
                   prelim, bm25, raised, fault, embed_calls, fnVars>>

\* Line 157: the document query raises.
LoadDocsFail ==
    /\ pc = "load_docs"
    /\ store_reads' = store_reads + 1
    /\ fault' = "store"
    /\ raised' = "StoreError"
    /\ pc' = "raised"
    /\ UNCHANGED <<storeVars, q, stageVars, returned, embed_calls, fnVars>>

\* The caller is done with the call's outcome; the next call may start.
Finish ==
    /\ pc \in {"done", "raised"}
    /\ pc' = "idle"
    /\ q' = NoCall
    /\ q_vec' = <<>>
    /\ q_toks' = <<>>
    /\ is_business_query' = FALSE
    /\ rows' = <<>>
    /\ prelim' = <<>>
    /\ bm25' = <<>>
    /\ doc_map' = <<>>
    /\ combined_per_chunk' = <<>>
    /\ best_per_doc' = <<>>
    /\ by_url' = <<>>
    /\ result' = <<>>
    /\ returned' = FALSE
    /\ raised' = "none"
    /\ fault' = "none"
    /\ embed_calls' = 0
    /\ store_reads' = 0
    /\ UNCHANGED <<storeVars, fnVars>>

Next ==
    \/ \E page \in Pages : StorePage(page)
    \/ \E tenant \in Tenants, query \in Queries, k \in 0..MaxK :
           Call(tenant, query, k)
    \/ \E v \in QueryVectors : EmbedOk(v)
    \/ EmbedFail
    \/ LoadRowsOk
    \/ LoadRowsFail
    \/ LoadDocsOk
    \/ LoadDocsFail
    \/ Finish

Spec == Init /\ [][Next]_vars

\* The same program reading a store in which a row may get damaged.
NextDamaged ==
    \/ Next
    \/ \E i \in 1..Len(chunks) : CorruptRow(i)

SpecDamaged == Init /\ [][NextDamaged]_vars

(***************************************************************************)
(* url_title_prior called on its own, on arguments outside what the pages  *)
(* above make retrieve() pass.                                             *)
(***************************************************************************)
URL_BIZ_PDF ==
    <<"s", "l", "s", "p", ".", "s", "k", "/", "b", "i", "z", "n", "i", "s",
      "/", "a", "r", "c", "h", "i", "v", "/", "x", ".", "p", "d", "f">>

URL_BIZ ==
    <<"s", "l", "s", "p", ".", "s", "k", "/", "b", "i", "z", "n", "i", "s",
      "/", "u", "v", "e", "r", "y">>

URL_LANDING ==
    <<"s", "l", "s", "p", ".", "s", "k", "/", "l", "a", "n", "d", "i", "n",
      "g", "-", "p", "a", "g", "e", "s", "/", "a">>

TITLE_FIRMA == <<"F", "i", "r", "m", "a">>

TOK_UCTY == <<"u", "c", "t", "y">>

TOK_FIRMA == <<"f", "i", "r", "m", "a">>

TOK_BIZNIS == <<"b", "i", "z", "n", "i", "s">>

PriorArgs ==
    [q_toks : {<<>>, <<TOK_UCTY>>, <<TOK_UCTY, TOK_FIRMA>>,
               <<TOK_BIZNIS, TOK_FIRMA, TOK_UCTY, TOK_UCTY>>},
     url    : {URL_HUB, URL_HUB2, URL_PDF, URL_BIZ_PDF, URL_BIZ, URL_LANDING},
     title  : {<<>>, TITLE_UCTY, TITLE_FIRMA},
     is_business_query : BOOLEAN]

InitPrior ==
    /\ documents = <<>>
    /\ chunks = <<>>
    /\ CallIdle
    /\ fn_args \in PriorArgs
    /\ fn_ret = <<>>
    /\ fn_frame = <<>>

CallPrior ==
    /\ fn_ret = <<>>
    /\ fn_ret' = <<url_title_prior(fn_args.q_toks, fn_args.url, fn_args.title,
                                   fn_args.is_business_query)>>
    /\ UNCHANGED <<storeVars, callVars, fn_args, fn_frame>>

NextPrior == CallPrior

SpecPrior == InitPrior /\ [][NextPrior]_vars

(***************************************************************************)
(* The cosine preselection of retrieve() (lines 145-147) called on its     *)
(* own, on lists longer than the cap.                                      *)
(***************************************************************************)
\* The similarities a row may have, in thousandths.
CosValues == {0, 707, 1000}

RECURSIVE SeqsUpTo(_, _)
SeqsUpTo(S, n) ==
    IF n = 0 THEN {<<>>}
    ELSE LET shorter == SeqsUpTo(S, n - 1)
         IN  shorter \cup {Append(s, x) : s \in {t \in shorter : Len(t) = n - 1},
                                          x \in S}

\* cos_scored over rows 1..n of one document, in row order.
CosScoredOf(scores) ==
    [i \in 1..Len(scores) |->
        [cid |-> i, text |-> <<>>, doc_id |-> 1, score |-> scores[i]]]

PreselectArgs ==
    [cos_scored : {CosScoredOf(sc) : sc \in SeqsUpTo(CosValues, MaxRows)},
     limit      : 1..MaxLimit]

InitPreselect ==
    /\ documents = <<>>
    /\ chunks = <<>>
    /\ CallIdle
    /\ fn_args \in PreselectArgs
    /\ fn_ret = <<>>
    /\ fn_frame = <<>>

CallPreselect ==
    /\ fn_ret = <<>>
    /\ fn_ret' = <<PreselectTop(fn_args.cos_scored, fn_args.limit)>>
    /\ UNCHANGED <<storeVars, callVars, fn_args, fn_frame>>

NextPreselect == CallPreselect

SpecPreselect == InitPreselect /\ [][NextPreselect]_vars

(***************************************************************************)
(* bm25_scores (lines 50-79) called on its own: once on a pool of chunks,  *)
(* then again each time one occurrence of a token that is no query token   *)
(* is replaced by a query token (the chunk keeps its length).              *)
(***************************************************************************)
TOK_INE == <<"i", "n", "e">>

\* The pools: a chunk of 1..MaxTokens tokens, alone or beside another chunk.
Bm25Args ==
    [q_toks      : {<<TOK_UCTY>>, <<TOK_UCTY, TOK_FIRMA>>},
     chunk_texts : {<<[i \in 1..n |-> TOK_INE]>> \o others :
                       n \in 1..MaxTokens,
                       others \in {<<>>, << <<TOK_INE, TOK_INE>> >>}},
     at          : {0}]

InitBm25 ==
    /\ documents = <<>>
    /\ chunks = <<>>
    /\ CallIdle
    /\ fn_args \in Bm25Args
    /\ fn_ret = <<>>
    /\ fn_frame = <<>>

CallBm25 ==
    /\ fn_ret = <<>>
    /\ fn_ret' = <<bm25_scores(fn_args.q_toks, fn_args.chunk_texts)>>
    /\ UNCHANGED <<storeVars, callVars, fn_args, fn_frame>>

\* Position p of chunk i becomes the query token t, and bm25_scores is
\* called on the new pool; fn_ret keeps the scores before and after.
RaiseTf(i, p, t) ==
    /\ fn_ret # <<>>
    /\ \A j \in 1..Len(fn_args.q_toks) :
           fn_args.chunk_texts[i][p] # fn_args.q_toks[j]
    /\ LET texts == [fn_args.chunk_texts EXCEPT ![i][p] = t]
       IN  /\ fn_args' = [fn_args EXCEPT !.chunk_texts = texts, !.at = i]
           /\ fn_ret' = <<fn_ret[Len(fn_ret)],
                          bm25_scores(fn_args.q_toks, texts)>>
    /\ UNCHANGED <<storeVars, callVars, fn_frame>>

NextBm25 ==
    \/ CallBm25
    \/ \E i \in 1..Len(fn_args.chunk_texts) :
           \E p \in 1..Len(fn_args.chunk_texts[i]) :
               \E j \in 1..Len(fn_args.q_toks) :
                   RaiseTf(i, p, fn_args.q_toks[j])

SpecBm25 == InitBm25 /\ [][NextBm25]_vars

(***************************************************************************)
(* tokens (lines 31-41) called on its own, on one word or on two words     *)
(* with a separator between them.                                          *)
(***************************************************************************)
WORD_KTORY == <<"K", "t", "o", "r", "y'">>

WORD_BYT == <<"B", "Y", "T^">>

WORD_TIEZ == <<"t", "i", "e", "z^">>

WORD_ALEBO == <<"a", "l", "e", "b", "o">>

WORD_PRE == <<"P", "R", "E">>

WORD_AB == <<"a", "b">>

WORD_SU == <<"s", "u'">>

TokenWords ==
    {WORD_KTORY, WORD_BYT, WORD_TIEZ, WORD_ALEBO, WORD_PRE, WORD_AB, WORD_SU,
     TITLE_UCTY, TITLE_FIRMA}

TokenArgs ==
    TokenWords
    \cup {w1 \o sep \o w2 : w1 \in TokenWords, w2 \in TokenWords,
                           sep \in {<<" ">>, <<",", " ">>}}

InitTokens ==
    /\ documents = <<>>
    /\ chunks = <<>>
    /\ CallIdle
    /\ fn_args \in TokenArgs
    /\ fn_ret = <<>>
    /\ fn_frame = <<>>

CallTokens ==
    /\ fn_ret = <<>>
    /\ fn_ret' = <<tokens(fn_args)>>
    /\ UNCHANGED <<storeVars, callVars, fn_args, fn_frame>>

NextTokens == CallTokens

SpecTokens == InitTokens /\ [][NextTokens]_vars

(***************************************************************************)
(* chunk_text (utils.py lines 9-20) called on its own, with any pair       *)
(* (max_tokens, overlap) the settings may hold.  A loop that does not end  *)
(* appends windows until the memory is used up (MemoryError).              *)
(***************************************************************************)
TEXT_LONG ==
    <<"f", "i", "r", "m", "a", " ", "a", " ", "u", "c", "t", "y", ".">>

TEXT_LIST == <<"a", ",", " ", "b">>

ChunkTexts ==
    {<<>>, <<" ">>, TOK_UCTY, TEXT_UCTY, TEXT_FIRMA, TEXT_LIST, TEXT_LONG}

ChunkArgs ==
    [text       : ChunkTexts,
     max_tokens : 1..MaxWindowTokens,
     overlap    : 0..MaxOverlap]

InitChunk ==
    /\ documents = <<>>
    /\ chunks = <<>>
    /\ CallIdle
    /\ fn_args \in ChunkArgs
    /\ fn_ret = <<>>
    /\ fn_frame = <<>>

CallChunkText ==
    /\ fn_frame = <<>>
    /\ fn_frame' = ChunkTextBegin(fn_args.text)
    /\ UNCHANGED <<storeVars, callVars, fn_args, fn_ret>>

ChunkIter ==
    /\ fn_frame # <<>>
    /\ fn_frame.pc = "loop"
    /\ IF /\ fn_frame.i < Len(fn_frame.tokens)
          /\ Len(fn_frame.chunks) >= MaxWindows
       THEN /\ fn_frame' = [fn_frame EXCEPT !.pc = "raised"]
            /\ fn_ret' = fn_ret
       ELSE LET f == ChunkTextStep(fn_frame, fn_args.max_tokens,
                                   fn_args.overlap)
            IN  /\ fn_frame' = f
                /\ fn_ret' = IF f.pc = "done" THEN <<f.chunks>> ELSE fn_ret
    /\ UNCHANGED <<storeVars, callVars, fn_args>>

NextChunk ==
    \/ CallChunkText
    \/ ChunkIter

\* The interpreter keeps running the call.
SpecChunk == InitChunk /\ [][NextChunk]_vars /\ WF_vars(NextChunk)

(***************************************************************************)
(* process_pages (ingest_lib.py lines 13-34) called on its own, any number *)
(* of times.  Its frame is [pc, idx, stored, windows]: the page the loop   *)
(* stands at, the pages stored so far and the windows of the page whose    *)
(* embeddings are awaited.  The settings are those of the process.         *)
(***************************************************************************)
RECURSIVE LStrip(_)
LStrip(s) == IF s # <<>> /\ IsSpace(Head(s)) THEN LStrip(Tail(s)) ELSE s

RECURSIVE RStrip(_)
RStrip(s) ==
    IF s # <<>> /\ IsSpace(s[Len(s)])
    THEN RStrip(SubSeq(s, 1, Len(s) - 1))
    ELSE s

\* str.strip()
Strip(s) == RStrip(LStrip(s))

\* chunk_text does not return: the stride is not positive and the text is
\* longer than one window.
ChunkTextLoops(text, max_tokens, overlap) ==
    overlap >= max_tokens /\ Len(tokenize(text)) > max_tokens

\* The vector the provider returns for a chunk.
ProviderVector(text) ==
    IF Contains(text, TOK_FIRMA) THEN <<0, 1>> ELSE <<1, 0>>

TEXT_PADDED == <<" ">> \o TEXT_LONG \o <<" ", "\n">>

IngestPages ==
    { [url |-> URL_HUB,  title |-> TITLE_UCTY, text |-> TEXT_UCTY],
      [url |-> URL_PDF,  title |-> <<>>,       text |-> TEXT_PADDED],
      [url |-> URL_HUB2, title |-> TITLE_UCTY, text |-> <<" ">>] }

IngestSettings ==
    { [max_chunk_tokens |-> 2, chunk_overlap_tokens |-> 1],
      [max_chunk_tokens |-> 3, chunk_overlap_tokens |-> 0],
      [max_chunk_tokens |-> 1, chunk_overlap_tokens |-> 1] }

\* The chunks of a page's text under the settings, when chunk_text returns.
PageWindows(page, settings) ==
    chunk_text(Strip(page.text), settings.max_chunk_tokens,
               settings.chunk_overlap_tokens)

PageLoops(page, settings) ==
    ChunkTextLoops(Strip(page.text), settings.max_chunk_tokens,
                   settings.chunk_overlap_tokens)

\* The chunks a call may add to the store.
WindowsOfCall(pages, settings) ==
    SumSeq([i \in 1..Len(pages) |->
               IF PageLoops(pages[i], settings) THEN 0
               ELSE Len(PageWindows(pages[i], settings))])

InitIngest ==
    /\ documents = <<>>
    /\ chunks = <<>>
    /\ CallIdle
    /\ fn_args = <<>>
    /\ fn_ret = <<>>
    /\ fn_frame = <<>>

CallProcessPages(tenant, pages, settings) ==
    /\ fn_frame = <<>>
    /\ Len(chunks) + WindowsOfCall(pages, settings) <= MaxChunks
    /\ fn_args' = [tenant |-> tenant, pages |-> pages, settings |-> settings]
    /\ fn_frame' = [pc |-> "page", idx |-> 1, stored |-> 0, windows |-> <<>>]
    /\ UNCHANGED <<storeVars, callVars, fn_ret>>

\* Lines 16-25: the next page; a page without text is skipped, a page with
\* text is chunked, which ends or does not.
PageBegin ==
    /\ fn_frame # <<>>
    /\ fn_frame.pc = "page"
    /\ fn_frame.idx <= Len(fn_args.pages)
    /\ LET page == fn_args.pages[fn_frame.idx]
       IN  IF Strip(page.text) = <<>>
           THEN fn_frame' = [fn_frame EXCEPT !.idx = @ + 1]
           ELSE IF PageLoops(page, fn_args.settings)
                THEN fn_frame' = [fn_frame EXCEPT !.pc = "chunking"]
                ELSE IF PageWindows(page, fn_args.settings) = <<>>
                     THEN fn_frame' = [fn_frame EXCEPT !.idx = @ + 1]
                     ELSE fn_frame' =
                              [fn_frame EXCEPT
                                  !.pc = "embed",
                                  !.windows =
                                      PageWindows(page, fn_args.settings)]
    /\ UNCHANGED <<storeVars, callVars, fn_args, fn_ret>>

\* Lines 26-33: the embeddings arrive, one per chunk; the document and its
\* chunks are added and committed.
EmbedPageOk ==
    /\ fn_frame # <<>>
    /\ fn_frame.pc = "embed"
    /\ LET p    == fn_args.pages[fn_frame.idx]
           page == [tenant  |-> fn_args.tenant,
                    url     |-> p.url,
                    title   |-> p.title,
                    windows |-> [i \in 1..Len(fn_frame.windows) |->
                                    [text |-> fn_frame.windows[i],
                                     emb  |-> ProviderVector(
                                                  fn_frame.windows[i])]]]
       IN  /\ documents' = DocumentsAfter(page)
           /\ chunks' = ChunksAfter(page)
    /\ fn_frame' = [fn_frame EXCEPT !.pc = "page",
                                    !.idx = @ + 1,
                                    !.stored = @ + 1,
                                    !.windows = <<>>]
    /\ UNCHANGED <<callVars, fn_args, fn_ret>>

\* Line 26: embed_texts raises; process_pages does not catch it.
EmbedPageFail ==
    /\ fn_frame # <<>>
    /\ fn_frame.pc = "embed"
    /\ fn_frame' = [fn_frame EXCEPT !.pc = "raised"]
    /\ UNCHANGED <<storeVars, callVars, fn_args, fn_ret>>

\* Line 34: return stored.
ReturnStored ==
    /\ fn_frame # <<>>
    /\ fn_frame.pc = "page"
    /\ fn_frame.idx > Len(fn_args.pages)
    /\ fn_frame' = [fn_frame EXCEPT !.pc = "done"]
    /\ fn_ret' = <<fn_frame.stored>>
    /\ UNCHANGED <<storeVars, callVars, fn_args>>

\* The caller is done with the call; the next call may start.
FinishIngest ==
    /\ fn_frame # <<>>
    /\ fn_frame.pc \in {"done", "raised"}
    /\ fn_args' = <<>>
    /\ fn_ret' = <<>>
    /\ fn_frame' = <<>>
    /\ UNCHANGED <<storeVars, callVars>>

NextIngest ==
    \/ \E tenant \in Tenants, settings \in IngestSettings,
          pages \in SeqsUpTo(IngestPages, MaxPages) :
           CallProcessPages(tenant, pages, settings)
    \/ PageBegin
    \/ EmbedPageOk
    \/ EmbedPageFail
    \/ ReturnStored
    \/ FinishIngest

SpecIngest == InitIngest /\ [][NextIngest]_vars

(***************************************************************************)
(* What the claims speak of.                                               *)
(***************************************************************************)
\* The stored document with this id, and the stored chunk with this id.
StoredDoc(id) == documents[CHOOSE i \in 1..Len(documents) : documents[i].id = id]

StoredChunk(id) == chunks[CHOOSE i \in 1..Len(chunks) : chunks[i].id = id]

UrlOf(doc_id) == StoredDoc(doc_id).url

\* The documents the tenant of the call has chunks for.
TenantDocIds ==
    {chunks[i].document_id :
        i \in {j \in 1..Len(chunks) : chunks[j].tenant = q.tenant}}

\* The URLs of the documents of the preselected chunks.
PrelimUrls == {UrlOf(prelim[i].doc_id) : i \in 1..Len(prelim)}

\* The call is over, one way or the other.
CallOver == pc \in {"done", "raised"}

(***************************************************************************)
(* C1.  The sequence retrieve returns never holds two results with the     *)
(* same document id, nor two results whose documents carry the same URL.   *)
(***************************************************************************)
C1_NoDuplicateDocOrUrl ==
    returned =>
        \A i, j \in 1..Len(result) :
            i # j =>
                /\ result[i].doc_id # result[j].doc_id
                /\ UrlOf(result[i].doc_id) # UrlOf(result[j].doc_id)

\* Two results came back although two documents of the pool share a URL.
C1_Witness ==
    /\ returned
    /\ Len(result) >= 2
    /\ \E a, b \in TenantDocIds : a # b /\ UrlOf(a) = UrlOf(b)

(***************************************************************************)
(* C2 as claimed.  With D the number of distinct documents the tenant has  *)
(* chunks for and K the effective k, retrieve returns exactly K results    *)
(* when K <= D and D results when K > D.                                   *)
(***************************************************************************)
C2_ExactlyKOfDocuments ==
    pc = "done" =>
        Len(result) = Min(EffectiveK(q.k), Cardinality(TenantDocIds))

(***************************************************************************)
(* C2 as amended.  retrieve returns min(K, U) results, U being the number  *)
(* of distinct URLs among the documents of the preselected chunks:         *)
(* documents that share a URL count once.                                  *)
(***************************************************************************)
C2_ExactlyKOfUrls ==
    pc = "done" =>
        Len(result) = Min(EffectiveK(q.k), Cardinality(PrelimUrls))

\* K is within the number of the tenant's documents, yet fewer than K
\* results came back, because two of those documents share a URL.
C2_Witness ==
    /\ pc = "done"
    /\ q.k >= 1
    /\ q.k <= Cardinality(TenantDocIds)
    /\ Len(result) < q.k
    /\ Len(result) = Cardinality(PrelimUrls)

(***************************************************************************)
(* C3 as claimed.  When the tenant has no stored chunk, retrieve returns   *)
(* an empty sequence and does not fail, whatever else happens in the call. *)
(***************************************************************************)
C3_EmptyCorpusNeverFails ==
    (CallOver /\ SelectRows(chunks, q.tenant) = <<>>) =>
        (pc = "done" /\ returned /\ result = <<>> /\ raised = "none")

(***************************************************************************)
(* C3 as amended.  When the tenant has no stored chunk and neither the     *)
(* embedding call nor the chunk query fails, retrieve returns an empty     *)
(* sequence right after the chunk query: no document query is made.        *)
(***************************************************************************)
C3_EmptyCorpusReturnsEmpty ==
    (CallOver /\ SelectRows(chunks, q.tenant) = <<>> /\ fault = "none") =>
        /\ pc = "done"
        /\ returned
        /\ result = <<>>
        /\ raised = "none"
        /\ embed_calls = 1
        /\ store_reads = 1
        /\ doc_map = <<>>

\* An empty answer for a tenant without chunks, beside another tenant's rows.
C3_Witness ==
    /\ pc = "done"
    /\ SelectRows(chunks, q.tenant) = <<>>
    /\ chunks # <<>>
    /\ returned
    /\ result = <<>>

(***************************************************************************)
(* C4 as claimed.  Every result retrieve returns has a fused score above   *)
(* zero (no positive candidate, no result).                                *)
(***************************************************************************)
C4_OnlyPositiveScores ==
    returned => \A i \in 1..Len(result) : result[i].score > 0

(***************************************************************************)
(* C4 as amended.  retrieve applies no score threshold: what it returns is *)
(* empty exactly when the tenant has no stored chunk.                      *)
(***************************************************************************)
C4_EmptyOnlyWithoutChunks ==
    pc = "done" => (result = <<>> <=> SelectRows(chunks, q.tenant) = <<>>)

\* Results came back and none of them has a positive fused score.
C4_Witness ==
    /\ pc = "done"
    /\ result # <<>>
    /\ \A i \in 1..Len(result) : result[i].score <= 0

(***************************************************************************)
(* C5 as claimed.  If one stored embedding of the tenant cannot be parsed, *)
(* retrieve skips that chunk and returns the ranking of the tenant's other *)
(* chunks; the call does not fail.                                         *)
(***************************************************************************)
\* What retrieve returns over these rows when every stage succeeds.
RankingOf(rws) ==
    IF rws = <<>> THEN <<>>
    ELSE LET pre  == Preselect(CosScored(rws, q_vec))
             bm   == bm25_scores(q_toks, PrelimTextTokens(pre))
             dmap == LoadDocMap(documents, pre)
         IN  Ranked(ByUrl(BestPerDoc(CombinedPerChunk(pre, bm, dmap, q_toks,
                                                       is_business_query)),
                          dmap),
                    EffectiveK(q.k))

ParsableRows(tenant) ==
    SelectSeq(SelectRows(chunks, tenant),
              LAMBDA r : json_loads(r.embedding).ok)

C5_DamagedRowSkipped ==
    (/\ CallOver
     /\ fault = "none"
     /\ ParsableRows(q.tenant) # SelectRows(chunks, q.tenant)) =>
        /\ pc = "done"
        /\ raised = "none"
        /\ result = RankingOf(ParsableRows(q.tenant))

(***************************************************************************)
(* C6.  Every chunk retrieve(tenant, ...) loads, preselects, scores or     *)
(* returns is a chunk of that tenant, and the BM25 scores are those of the *)
(* preselected chunks, one each.                                           *)
(***************************************************************************)
C6_TenantIsolation ==
    /\ \A i \in 1..Len(rows) : rows[i].tenant = q.tenant
    /\ \A i \in 1..Len(prelim) : StoredChunk(prelim[i].cid).tenant = q.tenant
    /\ \A i \in 1..Len(combined_per_chunk) :
           StoredChunk(combined_per_chunk[i].cid).tenant = q.tenant
    /\ \A i \in 1..Len(best_per_doc) :
           StoredChunk(best_per_doc[i].cid).tenant = q.tenant
    /\ \A i \in 1..Len(result) : StoredChunk(result[i].cid).tenant = q.tenant
    /\ pc \in {"load_docs", "done"} => Len(bm25) = Len(prelim)

\* Results came back while the store holds another tenant's chunk.
C6_Witness ==
    /\ pc = "done"
    /\ result # <<>>
    /\ \E i \in 1..Len(chunks) : chunks[i].tenant # q.tenant

(***************************************************************************)
(* C7.  The returned sequence is in descending order of fused score, and   *)
(* results of equal score stand in the order of by_url.values().           *)
(***************************************************************************)
\* Where the result stands in by_url.values().
PosInByUrl(e) == CHOOSE i \in 1..Len(by_url) : by_url[i].val.cid = e.cid

C7_SortedDescendingStable ==
    pc = "done" =>
        \A i, j \in 1..Len(result) :
            i < j =>
                /\ result[i].score >= result[j].score
                /\ result[i].score = result[j].score =>
                       PosInByUrl(result[i]) < PosInByUrl(result[j])

\* Three results: a tie of two, then a lower one.
C7_Witness ==
    /\ pc = "done"
    /\ Len(result) = 3
    /\ result[1].score = result[2].score
    /\ result[2].score > result[3].score

(***************************************************************************)
(* C8.  Of two documents kept by the per-document reduction that share a   *)
(* URL and differ in fused score, the lower one is never returned, and the *)
(* URL's entry scores at least the higher one: whenever the cut keeps all  *)
(* URLs, a result for that URL with at least the higher score is returned. *)
(***************************************************************************)
C8_HigherDuplicateWins ==
    pc = "done" =>
        \A i, j \in 1..Len(best_per_doc) :
            (/\ UrlOf(best_per_doc[i].doc_id) = UrlOf(best_per_doc[j].doc_id)
             /\ best_per_doc[i].score < best_per_doc[j].score) =>
                /\ \A r \in 1..Len(result) :
                       result[r].doc_id # best_per_doc[i].doc_id
                /\ \E u \in 1..Len(by_url) :
                       /\ by_url[u].url = UrlOf(best_per_doc[j].doc_id)
                       /\ by_url[u].val.score >= best_per_doc[j].score
                /\ Len(by_url) <= EffectiveK(q.k) =>
                       \E r \in 1..Len(result) :
                           /\ UrlOf(result[r].doc_id)
                                  = UrlOf(best_per_doc[j].doc_id)
                           /\ result[r].score >= best_per_doc[j].score

\* The lower duplicate was met first and the higher one took its place.
C8_Witness ==
    /\ pc = "done"
    /\ \E i, j \in 1..Len(best_per_doc) :
           /\ i < j
           /\ UrlOf(best_per_doc[i].doc_id) = UrlOf(best_per_doc[j].doc_id)
           /\ best_per_doc[i].score < best_per_doc[j].score
           /\ \E r \in 1..Len(result) :
                  result[r].doc_id = best_per_doc[j].doc_id

(***************************************************************************)
(* C9.  url_title_prior returns a value in [-0.6, 0.9] (here -60 .. 90     *)
(* hundredths) whatever the query tokens, URL, title and business flag.    *)
(***************************************************************************)
C9_PriorWithinBounds ==
    fn_ret # <<>> => (fn_ret[1] >= -60 /\ fn_ret[1] <= 90)

\* The rules add up to more than 0.9 and the result is 0.9.
C9_Witness ==
    /\ fn_ret = <<90>>
    /\ PriorSum(fn_args.q_toks, fn_args.url, fn_args.title,
                fn_args.is_business_query) > 90

(***************************************************************************)
(* C10.  When the embedding call or a store read fails under retrieve, the *)
(* call ends with an exception: nothing is returned, the failed call was   *)
(* made once, and no stage after the failed call has run.                  *)
(***************************************************************************)
C10_FailureAborts ==
    fault # "none" =>
        /\ pc = "raised"
        /\ raised # "none"
        /\ ~returned
        /\ result = <<>>
        /\ embed_calls = 1
        /\ fault = "provider" =>
               /\ store_reads = 0
               /\ q_vec = <<>>
               /\ rows = <<>>
               /\ prelim = <<>>
        /\ fault = "store" =>
               /\ store_reads \in {1, 2}
               /\ store_reads = 1 => (rows = <<>> /\ prelim = <<>>)
               /\ doc_map = <<>>
               /\ combined_per_chunk = <<>>
               /\ best_per_doc = <<>>
               /\ by_url = <<>>

\* The document query failed after preselection had run.
C10_Witness ==
    /\ fault = "store"
    /\ store_reads = 2
    /\ prelim # <<>>
    /\ pc = "raised"

(***************************************************************************)
(* C11 as claimed.  With M = min(cap, number of chunks), the preselected   *)
(* set includes every chunk whose cosine similarity is greater than or     *)
(* equal to the M-th highest similarity.                                   *)
(***************************************************************************)
\* The number of chunks kept, and the M-th highest similarity.
PreselectM == Min(fn_args.limit, Len(fn_args.cos_scored))

MthHighest ==
    LET cs == fn_args.cos_scored
    IN  CHOOSE v \in {cs[i].score : i \in 1..Len(cs)} :
            /\ Cardinality({i \in 1..Len(cs) : cs[i].score > v}) < PreselectM
            /\ Cardinality({i \in 1..Len(cs) : cs[i].score >= v}) >= PreselectM

\* The chunk ids the call kept.
KeptCids == {fn_ret[1][i].cid : i \in 1..Len(fn_ret[1])}

C11_KeepsAllAtLeastMth ==
    (fn_ret # <<>> /\ fn_args.cos_scored # <<>>) =>
        \A i \in 1..Len(fn_args.cos_scored) :
            fn_args.cos_scored[i].score >= MthHighest =>
                fn_args.cos_scored[i].cid \in KeptCids

(***************************************************************************)
(* C11 as amended.  Exactly M chunks are kept, in descending order of      *)
(* similarity; every chunk with a similarity above the M-th highest is     *)
(* kept and no chunk below it is; of the chunks that equal the M-th        *)
(* highest, the ones loaded first are kept.                                *)
(***************************************************************************)
C11_KeepsTopM ==
    fn_ret # <<>> =>
        LET cs  == fn_args.cos_scored
            pre == fn_ret[1]
        IN  /\ Len(pre) = PreselectM
            /\ \A i \in 1..Len(pre) : pre[i] = cs[pre[i].cid]
            /\ \A i, j \in 1..Len(pre) :
                   i < j =>
                       /\ pre[i].score >= pre[j].score
                       /\ pre[i].score = pre[j].score => pre[i].cid < pre[j].cid
            /\ cs # <<>> =>
                   \A i \in 1..Len(cs) :
                       /\ cs[i].score > MthHighest => cs[i].cid \in KeptCids
                       /\ cs[i].score < MthHighest => cs[i].cid \notin KeptCids
                       /\ (cs[i].score = MthHighest /\ cs[i].cid \in KeptCids) =>
                              \A j \in 1..Len(cs) :
                                  (j < i /\ cs[j].score = MthHighest) =>
                                      cs[j].cid \in KeptCids

\* The cut fell inside a run of equal similarities, below a higher one that
\* was loaded later.
C11_Witness ==
    /\ fn_ret # <<>>
    /\ PreselectM < Len(fn_args.cos_scored)
    /\ PreselectM >= 2
    /\ \E i, j \in 1..Len(fn_args.cos_scored) :
           /\ fn_args.cos_scored[i].score = MthHighest
           /\ fn_args.cos_scored[i].cid \notin KeptCids
           /\ fn_args.cos_scored[j].score = MthHighest
           /\ fn_args.cos_scored[j].cid \in KeptCids
    /\ \E i \in 2..Len(fn_args.cos_scored) :
           /\ fn_args.cos_scored[i].score > MthHighest
           /\ fn_args.cos_scored[i - 1].score < fn_args.cos_scored[i].score

(***************************************************************************)
(* C12.  When the query yields no token, bm25_scores returns a zero for    *)
(* every preselected chunk (none for an empty candidate set), and the      *)
(* fused score of every chunk is 0.60 * cosine + 0.15 * prior, the cosine  *)
(* being that of the stored embedding and the prior that of the stored     *)
(* document under no query token.                                          *)
(***************************************************************************)
C12_NoTokensNoKeywordScore ==
    (pc \in {"load_docs", "done"} /\ q_toks = <<>>) =>
        /\ Len(bm25) = Len(prelim)
        /\ \A i \in 1..Len(bm25) : bm25[i] = 0
        /\ pc = "done" =>
               /\ Len(combined_per_chunk) = Len(rows)
               /\ \A i \in 1..Len(combined_per_chunk) :
                      LET e == combined_per_chunk[i]
                          c == StoredChunk(e.cid)
                          d == StoredDoc(c.document_id)
                      IN  e.score =
                              60 * cosine(q_vec, json_loads(c.embedding).val)
                              + 150 * url_title_prior(<<>>, d.url, d.title, FALSE)

\* A query of stop words only was ranked: two results, cosine and prior
\* alone tell them apart.
C12_Witness ==
    /\ pc = "done"
    /\ q.query # <<>>
    /\ q_toks = <<>>
    /\ Len(result) >= 2
    /\ result[1].score > result[2].score

(***************************************************************************)
(* C13.  The BM25 score of a chunk does not decrease when one more of its  *)
(* tokens is a query term, its length, the other chunks and the counts of  *)
(* the other query terms being the same.                                   *)
(***************************************************************************)
C13_MonotoneInTermFrequency ==
    Len(fn_ret) = 2 => fn_ret[2][fn_args.at] >= fn_ret[1][fn_args.at]

\* The chunk's score rose although the term became less rare: the score of
\* the other chunk, which holds the term too, fell.
C13_Witness ==
    /\ Len(fn_ret) = 2
    /\ fn_ret[2][fn_args.at] > fn_ret[1][fn_args.at]
    /\ fn_ret[1][fn_args.at] > 0
    /\ \E j \in 1..Len(fn_ret[2]) :
           j # fn_args.at /\ fn_ret[2][j] < fn_ret[1][j]

(***************************************************************************)
(* C14 as claimed.  tokens returns no token shorter than 3 characters and  *)
(* no token that is a word of _SK_STOP, whatever the case or the accents   *)
(* the word was written with; every token is lowercase and free of         *)
(* combining marks.                                                        *)
(***************************************************************************)
\* The stop words as they look once case and accents are gone.
StopWordsFolded == {strip_acc(w) : w \in SK_STOP}

C14_NoShortNoStopWord ==
    fn_ret # <<>> =>
        \A i \in 1..Len(fn_ret[1]) :
            LET t == fn_ret[1][i]
            IN  /\ Len(t) >= 3
                /\ t \notin StopWordsFolded
                /\ \A j \in 1..Len(t) :
                       /\ Lower(t[j]) = t[j]
                       /\ NFD(t[j]) = <<t[j]>>
                       /\ ~IsMn(t[j])

(***************************************************************************)
(* C15 as claimed.  The tenant has 3 chunks across 2 documents, one with a *)
(* PDF asset URL, the other with an "all accounts" hub URL; the query      *)
(* tokens overlap both and the cosine similarities are equal: the first    *)
(* result is the hub document.                                             *)
(***************************************************************************)
IsPdfUrl(url) ==
    \/ Contains(strip_acc(url), S_content_dam)
    \/ EndsWith(strip_acc(url), S_pdf)

IsHubUrl(url) ==
    \/ Contains(strip_acc(url), S_vsetky_ucty)
    \/ Contains(strip_acc(url), S_ludia_ucty)

\* Some query token occurs in a chunk of the document.
QueryOverlaps(doc_id) ==
    \E i \in 1..Len(rows) :
        /\ rows[i].document_id = doc_id
        /\ \E j \in 1..Len(q_toks) :
               \E n \in 1..Len(tokens(rows[i].text)) :
                   tokens(rows[i].text)[n] = q_toks[j]

\* The scenario, for the hub document h and the PDF document p.
HubVsPdf(h, p) ==
    /\ pc = "done"
    /\ Len(rows) = 3
    /\ TenantDocIds = {h, p}
    /\ h # p
    /\ IsHubUrl(UrlOf(h)) /\ ~IsPdfUrl(UrlOf(h))
    /\ IsPdfUrl(UrlOf(p)) /\ ~IsHubUrl(UrlOf(p))
    /\ QueryOverlaps(h)
    /\ QueryOverlaps(p)
    /\ \A i, j \in 1..Len(prelim) : prelim[i].score = prelim[j].score

C15_HubRankedFirst ==
    \A h, p \in TenantDocIds :
        HubVsPdf(h, p) => (result # <<>> /\ result[1].doc_id = h)

(***************************************************************************)
(* C15 as amended.  In that scenario the hub document is first whenever,   *)
(* in addition, no chunk of the PDF document has a higher BM25 score than  *)
(* the best chunk of the hub document and the hub document's prior is      *)
(* higher than the PDF document's.                                         *)
(***************************************************************************)
\* The highest BM25 score among the preselected chunks of the document.
BestBm25(doc_id) ==
    LET of == {i \in 1..Len(prelim) : prelim[i].doc_id = doc_id}
    IN  bm25[CHOOSE i \in of : \A j \in of : bm25[i] >= bm25[j]]

PriorOf(doc_id) ==
    url_title_prior(q_toks, UrlOf(doc_id), StoredDoc(doc_id).title,
                    is_business_query)

C15_HubFirstUnlessKeywordsOutweigh ==
    \A h, p \in TenantDocIds :
        (/\ HubVsPdf(h, p)
         /\ BestBm25(p) <= BestBm25(h)
         /\ PriorOf(h) > PriorOf(p)) =>
            (result # <<>> /\ result[1].doc_id = h)

\* The PDF document was stored first and matches the keywords as well as
\* the hub document does; the hub document is first of the two results.
C15_Witness ==
    \E h, p \in TenantDocIds :
        /\ HubVsPdf(h, p)
        /\ p < h
        /\ BestBm25(p) = BestBm25(h)
        /\ BestBm25(p) > 0
        /\ PriorOf(h) > PriorOf(p)
        /\ Len(result) = 2
        /\ result[1].doc_id = h
        /\ result[2].doc_id = p

(***************************************************************************)
(* C16.  After the per-document reduction every document of a preselected  *)
(* chunk has exactly one kept chunk, one of its own preselected chunks; no *)
(* preselected chunk of the document has a higher fused score, and none    *)
(* with the same score stands before it in the preselected order.          *)
(***************************************************************************)
\* Where the kept chunk stands in combined_per_chunk (the preselected order).
PosInCombined(e) ==
    CHOOSE i \in 1..Len(combined_per_chunk) : combined_per_chunk[i].cid = e.cid

C16_BestChunkPerDocument ==
    pc = "done" =>
        /\ \A i \in 1..Len(combined_per_chunk) :
               combined_per_chunk[i].cid = prelim[i].cid
        /\ \A a, b \in 1..Len(best_per_doc) :
               a # b => best_per_doc[a].doc_id # best_per_doc[b].doc_id
        /\ \A b \in 1..Len(best_per_doc) :
               \E i \in 1..Len(combined_per_chunk) :
                   combined_per_chunk[i] = best_per_doc[b]
        /\ \A i \in 1..Len(combined_per_chunk) :
               \E b \in 1..Len(best_per_doc) :
                   /\ best_per_doc[b].doc_id = combined_per_chunk[i].doc_id
                   /\ best_per_doc[b].score >= combined_per_chunk[i].score
                   /\ best_per_doc[b].score = combined_per_chunk[i].score =>
                          PosInCombined(best_per_doc[b]) <= i

\* A document whose two chunks have one fused score kept the first.
C16_Witness ==
    /\ pc = "done"
    /\ \E i, j \in 1..Len(combined_per_chunk) :
           /\ i < j
           /\ combined_per_chunk[i].doc_id = combined_per_chunk[j].doc_id
           /\ combined_per_chunk[i].score = combined_per_chunk[j].score
           /\ \E b \in 1..Len(best_per_doc) :
                  best_per_doc[b] = combined_per_chunk[i]

\* The other case of the reduction: a document kept its second chunk, the
\* higher one.
C16_LaterChunkKept ==
    /\ pc = "done"
    /\ \E i, j \in 1..Len(combined_per_chunk) :
           /\ i < j
           /\ combined_per_chunk[i].doc_id = combined_per_chunk[j].doc_id
           /\ combined_per_chunk[i].score < combined_per_chunk[j].score
           /\ \E b \in 1..Len(best_per_doc) :
                  best_per_doc[b] = combined_per_chunk[j]

(***************************************************************************)
(* C18 as claimed.  chunk_text returns for every text and every pair       *)
(* (max_tokens, overlap): it does not go on appending windows until the    *)
(* memory is used up; what it returns are windows of at most max_tokens    *)
(* tokens that together cover every token of the text in order: the first  *)
(* starts at the first token, each next one starts no later than where the *)
(* one before ended, and the last ends at the last token.                  *)
(***************************************************************************)
ChunkTextReturned == fn_frame # <<>> /\ fn_frame.pc = "done"

\* Window k of the returned list is tokens[st[k] : st[k] + its length].
WindowsAt(st) ==
    LET toks == fn_frame.tokens
        ws   == fn_ret[1]
    IN  /\ \A k \in 1..Len(ws) :
               tokenize(ws[k])
                   = SubSeq(toks, st[k] + 1, st[k] + Len(tokenize(ws[k])))
        /\ st[1] = 0
        /\ \A k \in 1..(Len(ws) - 1) :
               /\ st[k] < st[k + 1]
               /\ st[k + 1] <= st[k] + Len(tokenize(ws[k]))
        /\ st[Len(ws)] + Len(tokenize(ws[Len(ws)])) = Len(toks)

WindowsCoverText ==
    IF fn_frame.tokens = <<>> THEN fn_ret[1] = <<>>
    ELSE /\ fn_ret[1] # <<>>
         /\ \E st \in [1..Len(fn_ret[1]) -> 0..(Len(fn_frame.tokens) - 1)] :
                WindowsAt(st)

WindowsWithinSize ==
    \A k \in 1..Len(fn_ret[1]) :
        Len(tokenize(fn_ret[1][k])) <= fn_args.max_tokens

\* The loop has filled the memory with windows.
ChunkTextOutOfMemory == fn_frame # <<>> /\ fn_frame.pc = "raised"

C18_ChunkTextTerminatesAndCovers ==
    /\ <>ChunkTextReturned
    /\ []~ChunkTextOutOfMemory
    /\ [](ChunkTextReturned => (WindowsWithinSize /\ WindowsCoverText))

(***************************************************************************)
(* C17.  At every point of any sequence of process_pages calls, also after *)
(* a call the provider failed under: every stored chunk references one     *)
(* stored document, of the chunk's tenant; the chunks of every document    *)
(* carry the ordinals 0..n-1 in the order they were stored, and they are   *)
(* the windows chunk_text produced for the document's page, one chunk per  *)
(* window in chunking order, each with its own embedding.                  *)
(***************************************************************************)
\* The chunks of the document, in table order.
ChunksOfDoc(doc_id) == SelectSeq(chunks, LAMBDA c : c.document_id = doc_id)

\* The document came from this page under these settings.
DocIsPage(d, page, settings) ==
    LET cs == ChunksOfDoc(d.id)
    IN  /\ d.url = page.url
        /\ d.title = PageTitle(page)
        /\ ~PageLoops(page, settings)
        /\ [i \in 1..Len(cs) |-> cs[i].text] = PageWindows(page, settings)
        /\ \A i \in 1..Len(cs) :
               cs[i].embedding = json_dumps(ProviderVector(cs[i].text))

C17_StoreIntegrity ==
    /\ \A i \in 1..Len(chunks) :
           /\ Cardinality({j \in 1..Len(documents) :
                              documents[j].id = chunks[i].document_id}) = 1
           /\ StoredDoc(chunks[i].document_id).tenant = chunks[i].tenant
    /\ \A j \in 1..Len(documents) :
           LET cs == ChunksOfDoc(documents[j].id)
           IN  /\ cs # <<>>
               /\ \A i \in 1..Len(cs) : cs[i].ordinal = i - 1
               /\ \E page \in IngestPages, settings \in IngestSettings :
                      DocIsPage(documents[j], page, settings)

\* A call stored a page of several windows and then ended with the
\* provider's exception on the next page.
C17_Witness ==
    /\ fn_frame # <<>>
    /\ fn_frame.pc = "raised"
    /\ fn_frame.stored = 1
    /\ fn_frame.idx = 2
    /\ \E j \in 1..Len(documents) : Len(ChunksOfDoc(documents[j].id)) >= 2

=============================================================================
